---- MODULE Spec2Model ----
(***************************************************************************)
(* Model of downloader_all_sat.py: the date-window to dataset mapping, the *)
(* sequential request pipeline against the remote API, the per-file        *)
(* download and the final extension normalisation of the output directory. *)
(* Text (dates, display identifiers, header values, file names) is a tuple *)
(* of one-character strings, so that parsing, substring search, stripping  *)
(* and extension splitting are computed character by character.            *)
(***************************************************************************)
EXTENDS Integers, Sequences, FiniteSets, TLC

VARIABLES pc, start_date, end_date, today, datasetNames, di, sceneIds,
          options, all_downloads, calls, available, fi, fetched, fs,
          fs_listed, pending

vars == <<pc, start_date, end_date, today, datasetNames, di, sceneIds,
          options, all_downloads, calls, available, fi, fetched, fs,
          fs_listed, pending>>

\* ------------------------------------------------------------------ text
Range(s) == {s[i] : i \in 1..Len(s)}

Front(s) == SubSeq(s, 1, Len(s) - 1)

Last(s) == s[Len(s)]

\* str.find(sub) from position i on: the first index at which sub occurs, 0 if none
RECURSIVE FindFrom(_, _, _)
FindFrom(s, sub, i) ==
    IF i + Len(sub) - 1 > Len(s) THEN 0
    ELSE IF SubSeq(s, i, i + Len(sub) - 1) = sub THEN i
    ELSE FindFrom(s, sub, i + 1)

\* Python's `sub in s`
Contains(s, sub) == FindFrom(s, sub, 1) > 0

Digit(c) ==
    CASE c = "0" -> 0 [] c = "1" -> 1 [] c = "2" -> 2 [] c = "3" -> 3
      [] c = "4" -> 4 [] c = "5" -> 5 [] c = "6" -> 6 [] c = "7" -> 7
      [] c = "8" -> 8 [] c = "9" -> 9

RECURSIVE ParseInt(_)
ParseInt(s) == IF s = <<>> THEN 0 ELSE ParseInt(Front(s)) * 10 + Digit(Last(s))

LowerLetters == <<"a", "b", "c", "d", "e", "f", "g", "h", "i", "j", "k", "l", "m", "n", "o", "p", "q", "r", "s", "t", "u", "v", "w", "x", "y", "z">>

UpperLetters == <<"A", "B", "C", "D", "E", "F", "G", "H", "I", "J", "K", "L", "M", "N", "O", "P", "Q", "R", "S", "T", "U", "V", "W", "X", "Y", "Z">>

UpperChar(c) ==
    IF \E i \in 1..Len(LowerLetters) : LowerLetters[i] = c
    THEN UpperLetters[CHOOSE i \in 1..Len(LowerLetters) : LowerLetters[i] = c]
    ELSE c

\* str.upper()
Upper(s) == [i \in 1..Len(s) |-> UpperChar(s[i])]

\* str.strip("\""): quote characters removed from both ends
RECURSIVE StripQuotes(_)
StripQuotes(s) ==
    IF s = <<>> THEN s
    ELSE IF s[1] = "\"" THEN StripQuotes(Tail(s))
    ELSE IF Last(s) = "\"" THEN StripQuotes(Front(s))
    ELSE s

\* ----------------------------------------------------------------- dates
date(y, m, d) == [year |-> y, month |-> m, day |-> d]

\* datetime.datetime.strptime(s, "%Y-%m-%d").date()
strptime(s) ==
    date(ParseInt(SubSeq(s, 1, 4)), ParseInt(SubSeq(s, 6, 7)), ParseInt(SubSeq(s, 9, 10)))

\* date.__le__: year, then month, then day
DateLE(a, b) ==
    \/ a.year < b.year
    \/ a.year = b.year /\ a.month < b.month
    \/ a.year = b.year /\ a.month = b.month /\ a.day <= b.day

DateMax(a, b) == IF DateLE(b, a) THEN a ELSE b

DateMin(a, b) == IF DateLE(a, b) THEN a ELSE b

overlaps_strict(s1, e1, s2, e2) ==
    LET lo == DateMax(s1, s2)
        hi == DateMin(e1, e2)
    IN  DateLE(lo, hi) /\ lo # hi

overlaps(s1, e1, s2, e2) == DateLE(DateMax(s1, s2), DateMin(e1, e2))

TM == "landsat_tm_c2_l2"

ETM == "landsat_etm_c2_l2"

OT == "landsat_ot_c2_l2"

TM_START == date(1982, 7, 16)

TM_END_by_year == date(2012, 6, 5)

TM_END == date(2011, 6, 5)

ETM_START == date(1999, 4, 15)

ETM_END == date(2022, 4, 6)

OT_START == date(2013, 2, 11)

OT_END_open == date(9999, 12, 31)

\* datetime.date.today(): the clock reading of the run
OT_END == strptime(today)

\* the set `valid` built by get_valid_datasets
ValidSet(s, e) ==
    LET start == strptime(s)
        end == strptime(e)
    IN  (IF overlaps(start, end, TM_START, TM_END) THEN {TM} ELSE {})
        \cup (IF overlaps(start, end, ETM_START, ETM_END) THEN {ETM} ELSE {})
        \cup (IF overlaps(start, end, OT_START, OT_END) THEN {OT} ELSE {})

\* list(valid): the elements of the set once each, in an order the caller cannot rely on
ListOf(S) ==
    {q \in UNION {[1..n -> S] : n \in {Cardinality(S)}} : Range(q) = S}

\* datasetNames = get_valid_datasets(start, end)
GetValidDatasets ==
    /\ pc = "start"
    /\ \E q \in ListOf(ValidSet(start_date, end_date)) : datasetNames' = q
    /\ pc' = "login"
    /\ UNCHANGED <<start_date, end_date, today, di, sceneIds, options, all_downloads,
                   calls, available, fi, fetched, fs, fs_listed, pending>>

\* ------------------------------------------------------------ remote API
bandNames == <<<<"Q", "A", "_", "P", "I", "X", "E", "L">>, <<"S", "T", "_", "B", "1", "0">>, <<"S", "T", "_", "B", "6">>>>

serviceCall(endpoint, datasetName, downloads, outcome) ==
    [endpoint |-> endpoint, datasetName |-> datasetName, downloads |-> downloads,
     outcome |-> outcome]

\* sendRequest: one POST to the endpoint, recorded in the order it is made, with what
\* came back ("raises": raise_for_status or the decoding of the envelope raised)
sendRequest(endpoint, datasetName, downloads, outcome) ==
    calls' = Append(calls, serviceCall(endpoint, datasetName, downloads, outcome))

\* apiKey = sendRequest(serviceUrl + "login-token", payload); all_downloads = []
Login(outcomes) ==
    /\ pc = "login"
    /\ \E o \in outcomes :
          /\ sendRequest("login-token", "", <<>>, o)
          /\ IF o = "raises"
             THEN pc' = "error_login" /\ UNCHANGED <<di, all_downloads>>
             ELSE pc' = "loop" /\ di' = 1 /\ all_downloads' = <<>>
    /\ UNCHANGED <<start_date, end_date, today, datasetNames, sceneIds, options,
                   available, fi, fetched, fs, fs_listed, pending>>

LoopDone_early == di > Len(datasetNames) \/ di > 1

\* `for datasetName in datasetNames` has no dataset left
LoopDone == di > Len(datasetNames)

\* one iteration of `for datasetName in datasetNames`, up to the scene search
SceneSearch(outcomes, results) ==
    /\ pc = "loop"
    /\ ~LoopDone
    /\ \E o \in outcomes :
          /\ sendRequest("scene-search", datasetNames[di], <<>>, o)
          /\ CASE o = "raises" -> pc' = "error_search" /\ UNCHANGED <<di, sceneIds>>
               [] o = "empty" -> pc' = "loop" /\ di' = di + 1 /\ UNCHANGED sceneIds
               [] o = "results" ->
                    /\ \E r \in results : sceneIds' = r
                    /\ pc' = "options"
                    /\ UNCHANGED di
    /\ UNCHANGED <<start_date, end_date, today, datasetNames, options, all_downloads,
                   available, fi, fetched, fs, fs_listed, pending>>

AfterOptionsError_abort == "error_options"

\* the except clause of the download-options call: print and continue
AfterOptionsError == "loop"

\* options = sendRequest(serviceUrl + "download-options", payload, apiKey)
DownloadOptions(outcomes, responses) ==
    /\ pc = "options"
    /\ \E o \in outcomes :
          /\ sendRequest("download-options", datasetNames[di], <<>>, o)
          /\ IF o = "raises"
             THEN /\ pc' = AfterOptionsError
                  /\ di' = di + 1
                  /\ UNCHANGED options
             ELSE /\ \E r \in responses : options' = r
                  /\ pc' = "filter"
                  /\ UNCHANGED di
    /\ UNCHANGED <<start_date, end_date, today, datasetNames, sceneIds, all_downloads,
                   available, fi, fetched, fs, fs_listed, pending>>

Selected_any_band(item, bandName) == Contains(item.displayId, bandName)

\* if item["bulkAvailable"] and bandName in item['displayId']
Selected(item, bandName) == item.bulkAvailable /\ Contains(item.displayId, bandName)

\* for bandName in bandNames: one append for each band name that selects the item
ItemDownloads(item) ==
    LET hits == SelectSeq(bandNames, LAMBDA b : Selected(item, b))
    IN  [k \in 1..Len(hits) |-> [entityId |-> item.entityId, productId |-> item.id]]

RECURSIVE ItemsDownloads(_)
ItemsDownloads(items) ==
    IF items = <<>> THEN <<>>
    ELSE ItemDownloads(Head(items)) \o ItemsDownloads(Tail(items))

\* for _, option in options.iterrows(): if option.get('secondaryDownloads'): ...
RECURSIVE OptionsDownloads(_)
OptionsDownloads(opts) ==
    IF opts = <<>> THEN <<>>
    ELSE ItemsDownloads(Head(opts).secondaryDownloads) \o OptionsDownloads(Tail(opts))

\* the loops over the option records of one dataset, appending to all_downloads
FilterOptions ==
    /\ pc = "filter"
    /\ all_downloads' = all_downloads \o OptionsDownloads(options)
    /\ di' = di + 1
    /\ pc' = "loop"
    /\ UNCHANGED <<start_date, end_date, today, datasetNames, sceneIds, options, calls,
                   available, fi, fetched, fs, fs_listed, pending>>

NoValidDownloads_never == FALSE

\* if not all_downloads
NoValidDownloads == all_downloads = <<>>

\* print("No valid downloads found."); sys.exit(0)
ExitNoDownloads ==
    /\ pc = "loop"
    /\ LoopDone
    /\ NoValidDownloads
    /\ pc' = "exit0"
    /\ UNCHANGED <<start_date, end_date, today, datasetNames, di, sceneIds, options,
                   all_downloads, calls, available, fi, fetched, fs, fs_listed, pending>>

\* requestResults = sendRequest(serviceUrl + "download-request", payload, apiKey);
\* available = requestResults.get("availableDownloads", []); os.makedirs(out_dir)
DownloadRequest(outcomes, lists) ==
    /\ pc = "loop"
    /\ LoopDone
    /\ ~NoValidDownloads
    /\ \E o \in outcomes :
          /\ sendRequest("download-request", "", all_downloads, o)
          /\ IF o = "raises"
             THEN pc' = "error_request" /\ UNCHANGED <<available, fi>>
             ELSE /\ \E a \in lists : available' = a
                  /\ fi' = 1
                  /\ pc' = "fetch"
    /\ UNCHANGED <<start_date, end_date, today, datasetNames, di, sceneIds, options,
                   all_downloads, fetched, fs, fs_listed, pending>>

\* ------------------------------------------------------------- downloads
FilenameToken == <<"f", "i", "l", "e", "n", "a", "m", "e", "=">>

re_findall_filename_or_header(disposition) ==
    LET i == FindFrom(disposition, FilenameToken, 1)
        from == i + Len(FilenameToken)
    IN  IF i > 0 /\ from <= Len(disposition)
        THEN <<SubSeq(disposition, from, Len(disposition))>>
        ELSE <<disposition>>

\* re.findall(r"filename=(.+)", disposition): the text after the first token that is
\* followed by at least one character, up to the end of the value (greedy, one line)
re_findall_filename(disposition) ==
    LET i == FindFrom(disposition, FilenameToken, 1)
        from == i + Len(FilenameToken)
    IN  IF i > 0 /\ from <= Len(disposition)
        THEN <<SubSeq(disposition, from, Len(disposition))>>
        ELSE <<>>

IsDir(dir, name) == name \in DOMAIN dir /\ dir[name] = "dir"

IsFile(dir, name) == name \in DOMAIN dir /\ dir[name] # "dir"

WriteFile(dir, name, content) ==
    [n \in DOMAIN dir \cup {name} |-> IF n = name THEN content ELSE dir[n]]

\* response.headers.get('content-disposition', ''): '' when the request got no header
Disposition(r) == IF r.get = "raises" THEN <<>> ELSE r.disposition

\* open(os.path.join(path, filename), 'wb') fails on an empty name and on a directory
OpenRaises(dir, filename) == filename = <<>> \/ IsDir(dir, filename)

\* whether the body of downloadFile raises for response r (caught by its except clause)
DownloadRaises(dir, r) ==
    \/ r.get = "raises"
    \/ /\ re_findall_filename(r.disposition) # <<>>
       /\ LET filename == StripQuotes(re_findall_filename(r.disposition)[1])
          IN  OpenRaises(dir, filename) \/ r.body = "raises"

\* the output directory after downloadFile(url, path) met response r: the file is
\* created by open() before response.content reads the streamed body
DirAfterDownload(dir, url, r) ==
    IF r.get = "raises" THEN dir
    ELSE LET matches == re_findall_filename(r.disposition)
         IN  IF matches = <<>> THEN dir
             ELSE LET filename == StripQuotes(matches[1])
                  IN  IF OpenRaises(dir, filename) THEN dir
                      ELSE IF r.body = "raises" THEN WriteFile(dir, filename, "empty")
                      ELSE WriteFile(dir, filename, url)

AfterDownloadError_abort == "error_download"

\* except Exception as e: print(...) -- downloadFile returns and the file loop goes on
AfterDownloadError == "fetch"

\* one iteration of `for item in available: downloadFile(item['url'], path=out_dir)`
DownloadFile(responses) ==
    /\ pc = "fetch"
    /\ fi <= Len(available)
    /\ \E r \in responses :
          /\ fetched' = Append(fetched, [url |-> available[fi], get |-> r.get,
                                         disposition |-> Disposition(r)])
          /\ fs' = DirAfterDownload(fs, available[fi], r)
          /\ pc' = IF DownloadRaises(fs, r) THEN AfterDownloadError ELSE "fetch"
    /\ fi' = fi + 1
    /\ UNCHANGED <<start_date, end_date, today, datasetNames, di, sceneIds, options,
                   all_downloads, calls, available, fs_listed, pending>>

\* ------------------------------------------------ extension normalisation
\* str.rfind("."): the last index of a dot, 0 if none
LastDot(p) ==
    IF \E i \in 1..Len(p) : p[i] = "."
    THEN CHOOSE i \in 1..Len(p) : p[i] = "." /\ \A j \in (i + 1)..Len(p) : p[j] # "."
    ELSE 0

\* os.path.splitext(filename): split at the last dot unless only dots precede it
splitext(p) ==
    LET k == LastDot(p)
    IN  IF k > 0 /\ \E j \in 1..(k - 1) : p[j] # "."
        THEN <<SubSeq(p, 1, k - 1), SubSeq(p, k, Len(p))>>
        ELSE <<p, <<>>>>

IsTifExt_exact(ext) == ext = <<".", "T", "I", "F">>

\* if ext.upper() == '.TIF'
IsTifExt(ext) == Upper(ext) = <<".", "T", "I", "F">>

\* os.rename(src, dst) on a POSIX file system, src a regular file, dst not a directory
Rename(dir, src, dst) ==
    IF src = dst THEN dir
    ELSE [n \in (DOMAIN dir \ {src}) \cup {dst} |-> IF n = dst THEN dir[src] ELSE dir[n]]

\* for filename in os.listdir(out_dir): the names are listed once, in no fixed order
ListDir ==
    /\ pc = "fetch"
    /\ fi > Len(available)
    /\ pending' = DOMAIN fs
    /\ fs_listed' = fs
    /\ pc' = "rename"
    /\ UNCHANGED <<start_date, end_date, today, datasetNames, di, sceneIds, options,
                   all_downloads, calls, available, fi, fetched, fs>>

\* one iteration of the rename loop
RenameStep ==
    /\ pc = "rename"
    /\ \E filename \in pending :
          LET oldbase == splitext(filename)[1]
              ext == splitext(filename)[2]
              target == oldbase \o <<".", "t", "i", "f">>
          IN  /\ pending' = pending \ {filename}
              /\ IF IsFile(fs, filename) /\ IsTifExt(ext)
                 THEN IF IsDir(fs, target)
                      THEN pc' = "error_rename" /\ UNCHANGED fs
                      ELSE pc' = "rename" /\ fs' = Rename(fs, filename, target)
                 ELSE pc' = "rename" /\ UNCHANGED fs
    /\ UNCHANGED <<start_date, end_date, today, datasetNames, di, sceneIds, options,
                   all_downloads, calls, available, fi, fetched, fs_listed>>

\* print("Download complete.")
Finish ==
    /\ pc = "rename"
    /\ pending = {}
    /\ pc' = "done"
    /\ UNCHANGED <<start_date, end_date, today, datasetNames, di, sceneIds, options,
                   all_downloads, calls, available, fi, fetched, fs, fs_listed, pending>>

\* ------------------------------------------------- inputs and environment
MaxItems == 1

MaxRecords == 2

MaxAvail == 2

SeqsUpTo(S, n) == UNION {[1..k -> S] : k \in 0..n}

\* clock readings: the day Landsat 7 ended, which the source names, and a later day
TodaySamples == {<<"2", "0", "2", "2", "-", "0", "4", "-", "0", "6">>, <<"2", "0", "2", "6", "-", "1", "1", "-", "0", "1">>}

DateSamples ==
    {<<"1", "9", "8", "0", "-", "0", "1", "-", "0", "1">>, <<"1", "9", "8", "2", "-", "0", "7", "-", "1", "5">>, <<"1", "9", "8", "2", "-", "0", "7", "-", "1", "6">>, <<"1", "9", "9", "9", "-", "0", "4", "-", "1", "4">>, <<"1", "9", "9", "9", "-", "0", "4", "-", "1", "5">>,
     <<"2", "0", "1", "1", "-", "0", "6", "-", "0", "5">>, <<"2", "0", "1", "1", "-", "0", "6", "-", "0", "6">>, <<"2", "0", "1", "2", "-", "0", "1", "-", "0", "1">>, <<"2", "0", "1", "3", "-", "0", "2", "-", "1", "0">>, <<"2", "0", "1", "3", "-", "0", "2", "-", "1", "1">>,
     <<"2", "0", "1", "4", "-", "0", "1", "-", "0", "1">>, <<"2", "0", "2", "2", "-", "0", "4", "-", "0", "6">>, <<"2", "0", "2", "2", "-", "0", "4", "-", "0", "7">>, <<"2", "0", "2", "6", "-", "1", "1", "-", "0", "1">>, <<"2", "0", "2", "6", "-", "1", "1", "-", "0", "2">>}

AllWindows == DateSamples \X DateSamples

RunWindows ==
    {<<<<"1", "9", "8", "0", "-", "0", "1", "-", "0", "1">>, <<"1", "9", "8", "2", "-", "0", "7", "-", "1", "5">>>>, <<<<"1", "9", "9", "9", "-", "0", "4", "-", "1", "5">>, <<"1", "9", "9", "9", "-", "0", "4", "-", "1", "5">>>>,
     <<<<"2", "0", "1", "2", "-", "0", "1", "-", "0", "1">>, <<"2", "0", "1", "4", "-", "0", "1", "-", "0", "1">>>>, <<<<"2", "0", "1", "1", "-", "0", "6", "-", "0", "5">>, <<"2", "0", "1", "3", "-", "0", "2", "-", "1", "1">>>>,
     <<<<"2", "0", "2", "6", "-", "1", "1", "-", "0", "2">>, <<"2", "0", "2", "6", "-", "1", "1", "-", "0", "2">>>>}

OneWindow == {<<<<"2", "0", "2", "6", "-", "1", "1", "-", "0", "1">>, <<"2", "0", "2", "6", "-", "1", "1", "-", "0", "1">>>>}

Item(e, p, displayId, bulk) ==
    [entityId |-> e, id |-> p, displayId |-> displayId, bulkAvailable |-> bulk]

ItemSamples ==
    {Item("e1", "p1", <<"L", "8", "_", "S", "T", "_", "B", "1", "0", ".", "T", "I", "F">>, TRUE),
     Item("e1", "p2", <<"L", "8", "_", "Q", "A", "_", "P", "I", "X", "E", "L", ".", "T", "I", "F">>, FALSE),
     Item("e1", "p3", <<"L", "8", "_", "S", "R", "_", "B", "4", ".", "T", "I", "F">>, TRUE),
     Item("e2", "p4", <<"L", "8", "_", "S", "T", "_", "B", "1", ".", "T", "I", "F">>, FALSE),
     Item("e2", "p5", <<"L", "7", "_", "S", "T", "_", "B", "6", ".", "T", "I", "F">>, TRUE),
     Item("e2", "p6", <<"L", "7", "_", "S", "T", "_", "B", "6", "_", "Q", "A", "_", "P", "I", "X", "E", "L">>, TRUE)}

OptionSamples ==
    SeqsUpTo({[secondaryDownloads |-> sd] : sd \in SeqsUpTo(ItemSamples, MaxItems)},
             MaxRecords)

FewOptions ==
    {<<[secondaryDownloads |-> <<Item("e1", "p1", <<"L", "8", "_", "S", "T", "_", "B", "1", "0", ".", "T", "I", "F">>, TRUE)>>]>>,
     <<[secondaryDownloads |-> <<Item("e1", "p2", <<"L", "8", "_", "Q", "A", "_", "P", "I", "X", "E", "L", ".", "T", "I", "F">>, FALSE)>>]>>}

SceneSamples == {<<"e1">>, <<"e1", "e2">>}

Response(get, disposition, body) == [get |-> get, disposition |-> disposition, body |-> body]

ResponseSamples ==
    {Response("raises", <<>>, "ok"),
     Response("ok", <<>>, "ok"),
     Response("ok", <<"a", "t", "t", "a", "c", "h", "m", "e", "n", "t">>, "ok"),
     Response("ok", <<"a", "t", "t", "a", "c", "h", "m", "e", "n", "t", ";", " ", "f", "i", "l", "e", "n", "a", "m", "e", "=", "\"", "A", ".", "T", "I", "F", "\"">>, "ok"),
     Response("ok", <<"f", "i", "l", "e", "n", "a", "m", "e", "=", "B", ".", "T", "i", "f">>, "raises"),
     Response("ok", <<"a", "t", "t", "a", "c", "h", "m", "e", "n", "t", ";", " ", "f", "i", "l", "e", "n", "a", "m", "e", "=">>, "ok"),
     Response("ok", <<"f", "i", "l", "e", "n", "a", "m", "e", "=", "\"", "\"">>, "ok")}

OneResponse == {Response("ok", <<"a", "t", "t", "a", "c", "h", "m", "e", "n", "t", ";", " ", "f", "i", "l", "e", "n", "a", "m", "e", "=", "\"", "A", ".", "T", "I", "F", "\"">>, "ok")}

FewResponses == OneResponse \cup {Response("raises", <<>>, "ok")}

Dir(entries) == [n \in {e[1] : e \in entries} |-> (CHOOSE e \in entries : e[1] = n)[2]]

DirSamples ==
    {Dir({}),
     Dir({<<<<"S", "C", "E", "N", "E", "1", ".", "T", "I", "F">>, "old1">>, <<<<"s", "c", "e", "n", "e", "2", ".", "t", "i", "f">>, "old2">>, <<<<"r", "e", "a", "d", "m", "e", ".", "T", "X", "T">>, "old3">>}),
     Dir({<<<<"A", ".", "T", "I", "F">>, "old1">>, <<<<"A", ".", "t", "i", "f">>, "old2">>, <<<<"B", ".", "T", "i", "f">>, "old3">>}),
     Dir({<<<<"C", ".", "T", "I", "F">>, "old1">>, <<<<"C", ".", "t", "i", "f">>, "dir">>, <<<<"D", ".", "T", "I", "F">>, "dir">>})}

EmptyDir == {Dir({})}

FewDirs ==
    {Dir({}),
     Dir({<<<<"S", "C", "E", "N", "E", "1", ".", "T", "I", "F">>, "old1">>, <<<<"s", "c", "e", "n", "e", "2", ".", "t", "i", "f">>, "old2">>, <<<<"r", "e", "a", "d", "m", "e", ".", "T", "X", "T">>, "old3">>})}

InitWith(windows, clocks, dirs) ==
    /\ pc = "start"
    /\ \E w \in windows : start_date = w[1] /\ end_date = w[2]
    /\ today \in clocks
    /\ fs \in dirs
    /\ datasetNames = <<>>
    /\ di = 1
    /\ sceneIds = <<>>
    /\ options = <<>>
    /\ all_downloads = <<>>
    /\ calls = <<>>
    /\ available = <<>>
    /\ fi = 1
    /\ fetched = <<>>
    /\ fs_listed = Dir({})
    /\ pending = {}

\* ---------------------------------------------------------- specifications
\* the run with every outcome of the remote calls of the dataset loop
Init == InitWith(RunWindows, {<<"2", "0", "2", "6", "-", "1", "1", "-", "0", "1">>}, FewDirs)

Next ==
    \/ GetValidDatasets
    \/ Login({"ok", "raises"})
    \/ SceneSearch({"raises", "empty", "results"}, SceneSamples)
    \/ DownloadOptions({"ok", "raises"}, FewOptions)
    \/ FilterOptions
    \/ ExitNoDownloads
    \/ DownloadRequest({"ok", "raises"}, {<<>>, <<"u1">>, <<"u1", "u2">>})
    \/ DownloadFile(FewResponses)
    \/ ListDir
    \/ RenameStep
    \/ Finish

Spec == Init /\ [][Next]_vars

\* the run over every sampled window and clock reading, the remote calls succeeding
InitDatasets == InitWith(AllWindows, TodaySamples, EmptyDir)

NextDatasets ==
    \/ GetValidDatasets
    \/ Login({"ok"})
    \/ SceneSearch({"results", "empty"}, {<<"e1">>})
    \/ DownloadOptions({"ok"}, FewOptions)
    \/ FilterOptions
    \/ ExitNoDownloads
    \/ DownloadRequest({"ok"}, {<<"u1">>})
    \/ DownloadFile(OneResponse)
    \/ ListDir
    \/ RenameStep
    \/ Finish

SpecDatasets == InitDatasets /\ [][NextDatasets]_vars

\* the run over every sampled download-options response
InitOptions == InitWith(OneWindow, {<<"2", "0", "2", "6", "-", "1", "1", "-", "0", "1">>}, EmptyDir)

NextOptions ==
    \/ GetValidDatasets
    \/ Login({"ok"})
    \/ SceneSearch({"results", "empty"}, {<<"e1">>})
    \/ DownloadOptions({"ok"}, OptionSamples)
    \/ FilterOptions
    \/ ExitNoDownloads
    \/ DownloadRequest({"ok"}, {<<"u1">>})
    \/ DownloadFile(OneResponse)
    \/ ListDir
    \/ RenameStep
    \/ Finish

SpecOptions == InitOptions /\ [][NextOptions]_vars

\* the run over every sampled output directory, download list and file response
InitDownload == InitWith(OneWindow, {<<"2", "0", "2", "6", "-", "1", "1", "-", "0", "1">>}, DirSamples)

NextDownload ==
    \/ GetValidDatasets
    \/ Login({"ok"})
    \/ SceneSearch({"results", "empty"}, {<<"e1">>})
    \/ DownloadOptions({"ok"}, FewOptions)
    \/ FilterOptions
    \/ ExitNoDownloads
    \/ DownloadRequest({"ok"}, SeqsUpTo({"u1", "u2"}, MaxAvail))
    \/ DownloadFile(ResponseSamples)
    \/ ListDir
    \/ RenameStep
    \/ Finish

SpecDownload == InitDownload /\ [][NextDownload]_vars

\* ------------------------------------------------------------ properties
\* a date string as the number yyyymmdd
Key(s) == ParseInt(SelectSeq(s, LAMBDA c : c # "-"))

Returned == pc # "start"

Names == Range(datasetNames)

CallsTo(endpoint) == {i \in 1..Len(calls) : calls[i].endpoint = endpoint}

Searched == SelectSeq(calls, LAMBDA c : c.endpoint = "scene-search")

SearchedNames == [i \in 1..Len(Searched) |-> Searched[i].datasetName]

\* C1: for a window with start_date <= end_date, get_valid_datasets returns each
\* identifier at most once, and the identifier of a sensor family exactly when the
\* window and the family's validity interval share a day (TM 1982-07-16..2011-06-05,
\* ETM+ 1999-04-15..2022-04-06, OLI/TIRS 2013-02-11..today); the one-day window
\* 1999-04-15 includes the ETM+ identifier.
C1_DatasetsMatchOverlap ==
    (Returned /\ Key(start_date) <= Key(end_date)) =>
        /\ Len(datasetNames) = Cardinality(Names)
        /\ Names \subseteq {"landsat_tm_c2_l2", "landsat_etm_c2_l2", "landsat_ot_c2_l2"}
        /\ "landsat_tm_c2_l2" \in Names
              <=> (Key(start_date) <= 20110605 /\ 19820716 <= Key(end_date))
        /\ "landsat_etm_c2_l2" \in Names
              <=> (Key(start_date) <= 20220406 /\ 19990415 <= Key(end_date))
        /\ "landsat_ot_c2_l2" \in Names
              <=> (Key(start_date) <= Key(today) /\ 20130211 <= Key(end_date))
        /\ (Key(start_date) = 19990415 /\ Key(end_date) = 19990415)
              => "landsat_etm_c2_l2" \in Names

C1_Witness ==
    /\ Returned
    /\ start_date = <<"1", "9", "9", "9", "-", "0", "4", "-", "1", "5">>
    /\ end_date = <<"1", "9", "9", "9", "-", "0", "4", "-", "1", "5">>
    /\ Names = {"landsat_tm_c2_l2", "landsat_etm_c2_l2"}

Window2012to2014 == start_date = <<"2", "0", "1", "2", "-", "0", "1", "-", "0", "1">> /\ end_date = <<"2", "0", "1", "4", "-", "0", "1", "-", "0", "1">>

\* C2 as stated: for the window 2012-01-01..2014-01-01 get_valid_datasets returns
\* exactly the TM and the OLI/TIRS identifiers.
C2_ReturnsTmAndOt ==
    (Returned /\ Window2012to2014) => Names = {"landsat_tm_c2_l2", "landsat_ot_c2_l2"}

\* C2 amended: for the window 2012-01-01..2014-01-01 get_valid_datasets returns
\* exactly the ETM+ and the OLI/TIRS identifiers; TM, which ended 2011-06-05, is excluded.
C2_ReturnsEtmAndOt ==
    (Returned /\ Window2012to2014) => Names = {"landsat_etm_c2_l2", "landsat_ot_c2_l2"}

C2_Witness == Returned /\ Window2012to2014 /\ Len(datasetNames) = 2

OutsideAllSensors == Key(end_date) < 19820716 \/ Key(start_date) > Key(today)

\* C3: a window entirely before 1982-07-16 or entirely after today yields an empty
\* result, and the run makes no scene search and finds no scene.
C3_NoDatasetNoSearch ==
    (Returned /\ OutsideAllSensors) =>
        /\ datasetNames = <<>>
        /\ CallsTo("scene-search") = {}
        /\ CallsTo("download-options") = {}
        /\ sceneIds = <<>>
        /\ pc \in {"login", "error_login", "loop", "exit0"}

C3_Witness ==
    /\ pc = "exit0"
    /\ Key(start_date) <= Key(end_date)
    /\ Key(start_date) > Key(today)
    /\ CallsTo("login-token") # {}

\* the condition of C4 on one secondary-download item, by direct search of its text
BandSubstrings == {<<"Q", "A", "_", "P", "I", "X", "E", "L">>, <<"S", "T", "_", "B", "1", "0">>, <<"S", "T", "_", "B", "6">>}

HasBand(displayId) ==
    \E b \in BandSubstrings : \E i \in 1..Len(displayId) :
        /\ i + Len(b) - 1 <= Len(displayId)
        /\ SubSeq(displayId, i, i + Len(b) - 1) = b

IsCandidate(item) == HasBand(item.displayId) /\ item.bulkAvailable = TRUE

PairOf(item) == [entityId |-> item.entityId, productId |-> item.id]

OptionItems ==
    UNION {Range(options[k].secondaryDownloads) : k \in 1..Len(options)}

\* C4: the loops over a download-options response add the (entityId, productId)
\* pair of a secondary-download item to the accumulator if and only if its display
\* identifier contains QA_PIXEL, ST_B10 or ST_B6 and its bulk flag is true; they add
\* nothing else and remove nothing.
C4_SelectedIffBandAndBulk ==
    [][pc = "filter" =>
          LET added == SubSeq(all_downloads', Len(all_downloads) + 1, Len(all_downloads'))
          IN  /\ SubSeq(all_downloads', 1, Len(all_downloads)) = all_downloads
              /\ \A item \in OptionItems : PairOf(item) \in Range(added) <=> IsCandidate(item)
              /\ Range(added) \subseteq {PairOf(item) : item \in OptionItems}]_vars

C4_Witness ==
    /\ pc = "loop"
    /\ \E item \in OptionItems : IsCandidate(item) /\ PairOf(item) \in Range(all_downloads)
    /\ \E item \in OptionItems :
          /\ HasBand(item.displayId)
          /\ ~item.bulkAvailable
          /\ PairOf(item) \notin Range(all_downloads)

RequestCalls == CallsTo("download-request")

\* C5: a run whose accumulator is empty after the dataset loop exits with status 0,
\* never calls download-request and fetches no file; the output directory is not
\* changed by any step up to and including that exit; download-request and the
\* later steps are reached only with a non-empty accumulator.
C5_EmptyMeansExitWithoutRequest ==
    /\ [](pc = "exit0" => all_downloads = <<>> /\ RequestCalls = {} /\ fetched = <<>>)
    /\ [](\A i \in RequestCalls : calls[i].downloads # <<>>)
    /\ [](pc \in {"error_request", "fetch", "rename", "done", "error_rename"}
            => all_downloads # <<>> /\ RequestCalls # {})
    /\ [][(pc \in {"start", "login", "loop", "options", "filter"})
            => (fs' = fs /\ fetched' = fetched)]_vars

C5_Witness ==
    /\ pc = "exit0"
    /\ DOMAIN fs # {}
    /\ Len(datasetNames) = 3
    /\ \E i \in CallsTo("download-options") : calls[i].outcome = "ok"
    /\ \E i \in CallsTo("download-options") : calls[i].outcome = "raises"

LoopOver == pc \notin {"start", "login", "error_login", "error_search", "options", "filter"}
               /\ (pc = "loop" => di > Len(datasetNames))

\* C6: a dataset whose scene search has no results, or whose download-options call
\* fails, is skipped: control goes to the next dataset with the accumulator as it
\* was; the accumulator only grows, every selected dataset has been searched once
\* the loop is over, and download-request carries the whole accumulator.
C6_SkipKeepsRunAndCandidates ==
    /\ [](LoopOver => SearchedNames = datasetNames)
    /\ [](\A i \in RequestCalls : calls[i].downloads = all_downloads)
    /\ [][/\ Len(all_downloads) <= Len(all_downloads')
          /\ SubSeq(all_downloads', 1, Len(all_downloads)) = all_downloads
          /\ (\/ pc = "options" /\ pc' # "filter"
              \/ pc = "loop" /\ di <= Len(datasetNames) /\ pc' \notin {"options", "error_search"})
                => (pc' = "loop" /\ di' = di + 1 /\ all_downloads' = all_downloads)]_vars

C6_Witness ==
    /\ pc = "fetch"
    /\ \E i, j, k \in 1..Len(calls) :
          /\ i < j /\ j < k
          /\ calls[i].endpoint = "download-options" /\ calls[i].outcome = "ok"
          /\ calls[j].endpoint = "download-options" /\ calls[j].outcome = "raises"
          /\ calls[k].endpoint = "scene-search" /\ calls[k].outcome = "empty"
    /\ all_downloads # <<>>

FetchedUrls == [i \in 1..Len(fetched) |-> fetched[i].url]

RequestReturned == \E i \in RequestCalls : calls[i].outcome = "ok"

\* C7: after a successful download-request every item of availableDownloads is
\* fetched, in list order, whatever happened to the items before it: while the file
\* loop runs the fetches are the items before the current one, and the run leaves
\* the loop only with all of them attempted.
C7_EveryFileAttempted ==
    RequestReturned =>
        IF pc = "fetch"
        THEN FetchedUrls = SubSeq(available, 1, fi - 1)
        ELSE FetchedUrls = available

C7_Witness ==
    /\ pc = "done"
    /\ Len(available) = 2
    /\ Len(fetched) = 2
    /\ fetched[1].get = "raises"
    /\ fetched[2].get = "ok"

NoFilenameToken(disposition) ==
    \A i \in 1..Len(disposition) :
        i + 8 > Len(disposition) \/ SubSeq(disposition, i, i + 8) # <<"f", "i", "l", "e", "n", "a", "m", "e", "=">>

\* C8: a downloadFile call whose response has no content-disposition header, or one
\* without a `filename=` token, changes nothing in the output directory and returns
\* to the file loop.
C8_NoFilenameNoFile ==
    [][(/\ pc = "fetch"
        /\ Len(fetched') = Len(fetched) + 1
        /\ fetched'[Len(fetched')].get = "ok"
        /\ NoFilenameToken(fetched'[Len(fetched')].disposition))
          => (fs' = fs /\ pc' = "fetch" /\ fi' = fi + 1)]_vars

C8_Witness ==
    /\ pc = "done"
    /\ \E i \in 1..Len(fetched) :
          /\ fetched[i].get = "ok"
          /\ fetched[i].disposition = <<"a", "t", "t", "a", "c", "h", "m", "e", "n", "t">>
    /\ \E i \in 1..Len(fetched) :
          /\ fetched[i].get = "ok"
          /\ fetched[i].disposition = <<>>

ExtOf(name) == splitext(name)[2]

BaseOf(name) == splitext(name)[1]

ListedFiles == {n \in DOMAIN fs_listed : fs_listed[n] # "dir"}

C10_PipelineOrder ==
    /\ pc \notin {"start", "login"} => calls # <<>>
    /\ \A i \in 1..Len(calls) : calls[i].endpoint = "login-token" <=> i = 1
    /\ \A i \in CallsTo("download-options") :
          /\ i > 1
          /\ calls[i - 1].endpoint = "scene-search"
          /\ calls[i - 1].outcome = "results"
          /\ calls[i - 1].datasetName = calls[i].datasetName
    /\ \A i \in RequestCalls : i = Len(calls) /\ SearchedNames = datasetNames
    /\ fetched # <<>> => RequestReturned
    /\ pc \in {"rename", "done", "error_rename"} => Len(fetched) = Len(available)

C10_Witness ==
    /\ pc = "done"
    /\ Len(fetched) = 2
    /\ Cardinality(CallsTo("download-options")) = 3
====
